---- MODULE Spec2Model ----
(***************************************************************************)
(* Model of codigo/busca_clima.py: the OpenWeather fetch driver.           *)
(*                                                                         *)
(* Python strings are sequences of one-character strings; Python's None is *)
(* the one-element sequence None below, which is no string of characters.  *)
(* A JSON payload is a record of the status of each key the code reads:    *)
(* "absent" (no such key), "null", "empty" (an empty object or list) or    *)
(* "ok" (a populated value).                                               *)
(***************************************************************************)
EXTENDS Integers, Sequences, FiniteSets, TLC

\* ------------------------------------------------------------- bounds
\* longest inline --cities string enumerated
MaxLen == 3
\* most data lines of a cities file
MaxRows == 2
\* most items of a forecast list
MaxItems == 2
\* most runs of main against one output directory
MaxRuns == 2
\* most lines of weather.csv at which one more append_to_csv call is made
MaxLines == 3
\* latest clock value (in ticks) at which the network may still be slow
MaxTime == 3
\* the clock counts quarter seconds: time.sleep(0.25) is one tick
TicksPerSecond == 4

\* ------------------------------------------------------------ strings
None == <<"None">>

\* Python truthiness of an optional string: None and "" are falsy.
Truthy(x) == x # None /\ x # <<>>

RECURSIVE LStrip(_)
LStrip(s) == IF s # <<>> /\ Head(s) = " " THEN LStrip(Tail(s)) ELSE s

RECURSIVE RStrip(_)
RStrip(s) ==
  IF s # <<>> /\ s[Len(s)] = " " THEN RStrip(SubSeq(s, 1, Len(s) - 1)) ELSE s

\* str.strip()
Strip(s) == RStrip(LStrip(s))

\* index of the first occurrence of character c in s, 0 when there is none
IndexOf(s, c) ==
  IF \E i \in 1..Len(s) : s[i] = c
  THEN CHOOSE i \in 1..Len(s) : s[i] = c /\ \A j \in 1..(i - 1) : s[j] # c
  ELSE 0

\* str.split(sep): always at least one piece, empty pieces kept
RECURSIVE Split(_, _)
Split(s, sep) ==
  LET i == IndexOf(s, sep)
  IN IF i = 0 THEN <<s>>
     ELSE <<SubSeq(s, 1, i - 1)>> \o Split(SubSeq(s, i + 1, Len(s)), sep)

\* str.replace(a, b) for single characters
Replace(s, a, b) == [i \in 1..Len(s) |-> IF s[i] = a THEN b ELSE s[i]]

\* sep.join(parts)
RECURSIVE Join(_, _)
Join(parts, sep) ==
  IF parts = <<>> THEN <<>>
  ELSE IF Len(parts) = 1 THEN parts[1]
  ELSE parts[1] \o <<sep>> \o Join(Tail(parts), sep)

NonEmpty(s) == s # <<>>

\* a string written out character by character
Str(t) == [i \in 1..Len(t) |-> t[i]]

\* ------------------------------------------------------- get_api_key
\* config.local.json beside the script: missing, or a JSON object whose
\* OPENWEATHER_API_KEY entry is `entry` (None when the object has no such
\* entry or holds null).
\* `valid` is whether json.load parses the file.
NoConfig == [exists |-> FALSE, valid |-> FALSE, entry |-> None]

\* the environment consulted before the command line
get_api_key_env_first(cli, env, cfg) ==
  IF Truthy(env) THEN [outcome |-> "return", key |-> env]
  ELSE IF Truthy(cli) THEN [outcome |-> "return", key |-> cli]
  ELSE IF cfg.exists /\ ~cfg.valid THEN [outcome |-> "raise", key |-> None]
  ELSE IF cfg.exists /\ Truthy(cfg.entry)
       THEN [outcome |-> "return", key |-> cfg.entry]
  ELSE [outcome |-> "exit", key |-> None]

get_api_key(cli, env, cfg) ==
  IF Truthy(cli) THEN [outcome |-> "return", key |-> cli]
  ELSE IF Truthy(env) THEN [outcome |-> "return", key |-> env]
  ELSE IF cfg.exists /\ ~cfg.valid THEN [outcome |-> "raise", key |-> None]
  ELSE IF cfg.exists /\ Truthy(cfg.entry)
       THEN [outcome |-> "return", key |-> cfg.entry]
  ELSE [outcome |-> "exit", key |-> None]

\* ------------------------------------------------------ parse_cities
\* the queries of the inline string
InlineQueries(cities) ==
  IF Truthy(cities)
  THEN SelectSeq([i \in 1..Len(Split(cities, ";")) |->
                    Strip(Split(cities, ";")[i])], NonEmpty)
  ELSE <<>>

\* csv.DictReader's row.get(key, ""): "" when the header has no such column,
\* None when the line has fewer cells than the header, else the cell.
RowGet(cols, cells, key) ==
  IF \A i \in 1..Len(cols) : cols[i] # key THEN <<>>
  ELSE LET i == CHOOSE j \in 1..Len(cols) : cols[j] = key
       IN IF i > Len(cells) THEN None ELSE cells[i]

\* One pass of the reader loop: the query of a row, or the AttributeError of
\* None.strip().
RowQuery(cols, cells) ==
  LET name == RowGet(cols, cells, "name")
      state == RowGet(cols, cells, "state")
      country == RowGet(cols, cells, "country")
  IN IF name = None \/ state = None \/ country = None
     THEN [raised |-> TRUE, q |-> <<>>]
     ELSE [raised |-> FALSE,
           q |-> Join(SelectSeq(<<Strip(name), Strip(state), Strip(country)>>,
                                NonEmpty), ",")]

\* csv.DictReader skips the lines that hold no cell at all
DictRows(rows) == SelectSeq(rows, NonEmpty)

RECURSIVE FileQueries(_, _)
FileQueries(cols, rows) ==
  IF rows = <<>> THEN [raised |-> FALSE, out |-> <<>>]
  ELSE LET r == RowQuery(cols, Head(rows))
           rest == FileQueries(cols, Tail(rows))
       IN IF r.raised \/ rest.raised THEN [raised |-> TRUE, out |-> <<>>]
          ELSE [raised |-> FALSE,
                out |-> (IF r.q # <<>> THEN <<r.q>> ELSE <<>>) \o rest.out]

parse_cities(cities, cities_file, content) ==
  LET inl == InlineQueries(cities)
      fil == IF Truthy(cities_file)
             THEN FileQueries(content.cols, DictRows(content.rows))
             ELSE [raised |-> FALSE, out |-> <<>>]
  IN IF fil.raised THEN [outcome |-> "raise", out |-> <<>>]
     ELSE IF inl \o fil.out = <<>> THEN [outcome |-> "exit", out |-> <<>>]
     ELSE [outcome |-> "return", out |-> inl \o fil.out]

\* ----------------------------------------------------- append_to_csv
\* d.get(k, {}): the default stands in for an absent key only
GetOrDefault(st) == IF st = "absent" THEN "empty" ELSE st

\* x or {}: null and the empty container are falsy
OrEmpty(v) == IF v = "null" THEN "empty" ELSE v

\* x.get(k) on the value reached: None has no .get
Raises(v) == v = "null"

\* the cell of x.get(k): None is written as the empty cell
Cell(v) == IF v = "ok" THEN <<"v">> ELSE <<>>

\* datetime.utcfromtimestamp(p.get("dt", 0)).isoformat()
IsoFormat(dt) == IF dt = "absent" THEN <<"1970-01-01T00:00:00">> ELSE <<dt>>

CurKeys ==
  <<"ts", "city_query", "fetched_at", "kind", "name", "lat", "lon", "temp_c",
    "humidity", "pressure", "wind_speed", "rain_1h", "weather", "weather_desc">>

FctKeys ==
  <<"ts", "city_query", "fetched_at", "kind", "name", "lat", "lon", "temp_c",
    "humidity", "pressure", "wind_speed", "rain_3h", "pop", "weather",
    "weather_desc">>

\* the falsy payload: {} or null
NoPayload ==
  [truthy |-> FALSE, dt |-> "absent", coord |-> "absent", main |-> "absent",
   wind |-> "absent", rain |-> "absent", weather |-> "absent"]

NoForecast ==
  [truthy |-> FALSE, city |-> "absent", city_coord |-> "absent", list |-> <<>>]

\* lines 94-109: building the row raises on dt: null (utcfromtimestamp(None))
\* and on coord: null (None.get)
CurRaises(cur) == cur.dt = "null" \/ Raises(GetOrDefault(cur.coord))

CurRow(q, fetched_at, cur) ==
  [keys |-> CurKeys,
   val |-> [k \in {CurKeys[i] : i \in 1..Len(CurKeys)} |->
     CASE k = "ts" -> IsoFormat(cur.dt)
       [] k = "city_query" -> q
       [] k = "fetched_at" -> fetched_at
       [] k = "kind" -> <<"current">>
       [] k = "name" -> <<"v">>
       [] k \in {"lat", "lon"} -> Cell(GetOrDefault(cur.coord))
       [] k \in {"temp_c", "humidity", "pressure"} ->
            Cell(OrEmpty(GetOrDefault(cur.main)))
       [] k = "wind_speed" -> Cell(OrEmpty(GetOrDefault(cur.wind)))
       [] k = "rain_1h" -> Cell(OrEmpty(GetOrDefault(cur.rain)))
       [] OTHER -> Cell(OrEmpty(GetOrDefault(cur.weather)))]]

\* fct.get("city",{}) or {} and then .get("coord",{}): the value whose
\* .get("lat") is taken
CityCoord(fct) ==
  IF OrEmpty(GetOrDefault(fct.city)) = "ok" THEN GetOrDefault(fct.city_coord)
  ELSE "empty"

ItemRaises(fct, item) == item.dt = "null" \/ Raises(CityCoord(fct))

ItemRow(q, fetched_at, fct, item) ==
  [keys |-> FctKeys,
   val |-> [k \in {FctKeys[i] : i \in 1..Len(FctKeys)} |->
     CASE k = "ts" -> IsoFormat(item.dt)
       [] k = "city_query" -> q
       [] k = "fetched_at" -> fetched_at
       [] k = "kind" -> <<"forecast">>
       [] k = "name" -> Cell(OrEmpty(GetOrDefault(fct.city)))
       [] k \in {"lat", "lon"} -> Cell(CityCoord(fct))
       [] k \in {"temp_c", "humidity", "pressure"} ->
            Cell(OrEmpty(GetOrDefault(item.main)))
       [] k = "wind_speed" -> Cell(OrEmpty(GetOrDefault(item.wind)))
       [] k = "rain_3h" -> Cell(OrEmpty(GetOrDefault(item.rain)))
       [] k = "pop" -> Cell(GetOrDefault(item.pop))
       [] OTHER -> Cell(OrEmpty(GetOrDefault(item.weather)))]]

\* fct.get("list") or []
FctList(fct) == IF fct.truthy THEN fct.list ELSE <<>>

\* lines 87-130: the rows of a bundle, current first, then the list in order
PackRaises(pack) ==
  \/ pack.current.truthy /\ CurRaises(pack.current)
  \/ \E i \in 1..Len(FctList(pack.forecast)) :
       ItemRaises(pack.forecast, FctList(pack.forecast)[i])

PackRows(pack) ==
  (IF pack.current.truthy
   THEN <<CurRow(pack.query, pack.fetched_at, pack.current)>> ELSE <<>>)
  \o [i \in 1..Len(FctList(pack.forecast)) |->
        ItemRow(pack.query, pack.fetched_at, pack.forecast,
                FctList(pack.forecast)[i])]

\* pd.DataFrame(list of dicts): the columns are the keys of the rows in the
\* order they are first met
RECURSIVE AllKeys(_)
AllKeys(rows) ==
  IF rows = <<>> THEN <<>> ELSE Head(rows).keys \o AllKeys(Tail(rows))

\* the elements of a sequence, each at its first occurrence only
FirstSeen(seq) ==
  LET first == {i \in 1..Len(seq) : \A j \in 1..(i - 1) : seq[j] # seq[i]}
  IN [k \in 1..Cardinality(first) |->
        seq[CHOOSE i \in first : Cardinality({j \in first : j < i}) = k - 1]]

Columns(rows) == FirstSeen(AllKeys(rows))

\* DataFrame.to_csv(header=True): one line of the column names (a line with
\* no cell when the frame has no column)
HeaderLine(cols) ==
  [hdr |-> TRUE, cols |-> cols, vals |-> [j \in 1..Len(cols) |-> Str(<<cols[j]>>)]]

\* one line per row, its cells in the frame's column order; a column the row
\* has no key for is NaN, written as the empty cell
DataLines(rows, cols) ==
  [i \in 1..Len(rows) |->
     [hdr |-> FALSE, cols |-> cols,
      vals |-> [j \in 1..Len(cols) |->
                  IF cols[j] \in DOMAIN rows[i].val THEN rows[i].val[cols[j]]
                  ELSE <<>>]]]

NoCsv == [exists |-> FALSE, lines |-> <<>>]

\* every call writing the file anew, header included (mode "w")
ToCsvTruncating(file, rows) ==
  [exists |-> TRUE,
   lines |-> <<HeaderLine(Columns(rows))>> \o DataLines(rows, Columns(rows))]

\* lines 132-137
ToCsv(file, rows) ==
  IF file.exists
  THEN [exists |-> TRUE, lines |-> file.lines \o DataLines(rows, Columns(rows))]
  ELSE [exists |-> TRUE,
        lines |-> <<HeaderLine(Columns(rows))>>
                    \o DataLines(rows, Columns(rows))]

append_to_csv(file, pack) ==
  IF PackRaises(pack) THEN [raised |-> TRUE, file |-> file]
  ELSE [raised |-> FALSE, file |-> ToCsv(file, PackRows(pack))]

\* ------------------------------------------------------------- inputs
DtName == <<"t1", "t2", "t3", "t4">>

OkCur ==
  [truthy |-> TRUE, dt |-> "t1", coord |-> "ok", main |-> "ok",
   wind |-> "ok", rain |-> "ok", weather |-> "ok"]

OkItem(i) ==
  [dt |-> DtName[i], main |-> "ok", wind |-> "ok", rain |-> "ok",
   weather |-> "ok", pop |-> "ok"]

\* a forecast response whose list holds n well-formed items
OkFct(n) ==
  [truthy |-> TRUE, city |-> "ok", city_coord |-> "ok",
   list |-> [i \in 1..n |-> OkItem(i)]]

\* what the current-weather endpoint may answer: {} or a full payload
MainCur == {NoPayload, OkCur}

\* what the forecast endpoint may answer: an empty list, a full list
MainFct == {OkFct(0), OkFct(MaxItems)}

KeyCli == <<"k", "c">>
KeyEnv == <<"k", "e">>
KeyCfg == <<"k", "f">>

ConfigFiles ==
  {NoConfig, [exists |-> TRUE, valid |-> FALSE, entry |-> None]}
  \cup {[exists |-> TRUE, valid |-> TRUE, entry |-> e] :
          e \in {None, <<>>, KeyCfg}}

NoCities == [cols |-> <<>>, rows |-> <<>>]

\* a cities file of two rows: "a,,b" and "a_b"
TwoCities ==
  [cols |-> <<"name", "state", "country">>,
   rows |-> << <<Str(<<"a">>), <<>>, Str(<<"b">>)>>,
               <<Str(<<"a", "_", "b">>), <<>>, <<>>>> >>]

\* the command lines and environments of the driver specification
MainInputs ==
  [cli_key : {None, KeyCli}, env_key : {None}, cfg : {NoConfig},
   cities : {None, Str(<<"a", ",", "b">>), Str(<<"a", ";", "a", ";", "a">>)},
   cities_file : {None}, cities_csv : {NoCities}]
  \cup
  [cli_key : {KeyCli}, env_key : {None}, cfg : {NoConfig},
   cities : {None}, cities_file : {Str(<<"f">>)}, cities_csv : {TwoCities}]

\* the command lines and environments of the credential specification
KeyInputs ==
  [cli_key : {None, <<>>, KeyCli}, env_key : {None, <<>>, KeyEnv},
   cfg : ConfigFiles, cities : {None, Str(<<"a", ";", "b">>)},
   cities_file : {None}, cities_csv : {NoCities}]

\* -------------------------------------------------------------- state
VARIABLES
  pc,          \* where the process stands
  run,         \* number of the run against the output directory
  args,        \* command line, environment and input files of the run
  api_key,     \* main's api_key
  queries,     \* main's cities, as the list of their "q"
  idx,         \* position of the loop of main in queries
  now,         \* the clock, in ticks
  requests,    \* the HTTP requests the run has issued, in order
  pack,        \* the bundle being fetched
  raw,         \* out/raw: file name -> the bundle written
  saved,       \* history: the bundles the run has written a raw file for
  csv          \* out/weather.csv

vars ==
  <<pc, run, args, api_key, queries, idx, now, requests, pack, raw, saved, csv>>

NoPack ==
  [query |-> <<>>, fetched_at |-> <<>>, current |-> NoPayload,
   forecast |-> NoForecast]

Terminal ==
  {"done", "exit_nokey", "exit_nocities", "raised_cfg", "raised_parse",
   "raised_http", "raised_csv"}

InitWith(Inputs) ==
  /\ pc = "start"
  /\ run = 1
  /\ args \in Inputs
  /\ api_key = None
  /\ queries = <<>>
  /\ idx = 0
  /\ now = 0
  /\ requests = <<>>
  /\ pack = NoPack
  /\ raw = <<>>
  /\ saved = <<>>
  /\ csv = NoCsv

\* ---------------------------------------------------------------- main
\* a missing key reported without ending the process
AfterKeyIgnoringExit(outcome) ==
  CASE outcome = "return" -> "parse"
    [] outcome = "exit" -> "parse"
    [] OTHER -> "raised_cfg"

\* line 42 ends the process; a key returned lets main go on to line 150
AfterKey(outcome) ==
  CASE outcome = "return" -> "parse"
    [] outcome = "exit" -> "exit_nokey"
    [] OTHER -> "raised_cfg"

\* line 149
ResolveKey ==
  /\ pc = "start"
  /\ LET r == get_api_key(args.cli_key, args.env_key, args.cfg)
     IN /\ api_key' = r.key
        /\ pc' = AfterKey(r.outcome)
  /\ UNCHANGED <<run, args, queries, idx, now, requests, pack, raw, saved, csv>>

\* lines 150-153
ParseStep ==
  /\ pc = "parse"
  /\ LET r == parse_cities(args.cities, args.cities_file, args.cities_csv)
     IN /\ queries' = r.out
        /\ idx' = IF r.outcome = "return" THEN 1 ELSE 0
        /\ pc' = CASE r.outcome = "return" -> "fetch_cur"
                   [] r.outcome = "exit" -> "exit_nocities"
                   [] OTHER -> "raised_parse"
  /\ UNCHANGED <<run, args, api_key, now, requests, pack, raw, saved, csv>>

\* line 74: the current-weather request; urlopen or json.loads may raise
Request(endpoint) == [city |-> idx, endpoint |-> endpoint, appid |-> api_key]

FetchCurrent(Answers) ==
  /\ pc = "fetch_cur"
  /\ requests' = Append(requests, Request("weather"))
  /\ \/ /\ pc' = "raised_http"
        /\ pack' = NoPack
     \/ /\ pc' = "fetch_fct"
        /\ \E c \in Answers :
             pack' = [NoPack EXCEPT !.query = queries[idx], !.current = c]
  /\ UNCHANGED <<run, args, api_key, queries, idx, now, raw, saved, csv>>

\* line 77: datetime.now(timezone.utc).isoformat(), one mark per tick
IsoTime(t) == [i \in 1..t |-> "1"]

\* the time the two requests of a city take beside the sleep: none to speak
\* of, or the rest of a second
Latency == {0} \cup (IF now < MaxTime THEN {TicksPerSecond - 1} ELSE {})

\* lines 75-77: the sleep, the forecast request, the bundle
FetchForecast(Answers, Delays) ==
  /\ pc = "fetch_fct"
  /\ requests' = Append(requests, Request("forecast"))
  /\ \E d \in Delays :
       /\ now' = now + 1 + d
       /\ \/ /\ pc' = "raised_http"
             /\ pack' = NoPack
          \/ /\ pc' = "save"
             /\ \E f \in Answers :
                  pack' = [pack EXCEPT !.forecast = f,
                                       !.fetched_at = IsoTime(now + 1 + d)]
  /\ UNCHANGED <<run, args, api_key, queries, idx, raw, saved, csv>>

\* line 161: strftime("%Y%m%dT%H%M%SZ") keeps whole seconds
stamp(t) == t \div TicksPerSecond

\* line 162
raw_path(q, t) == <<Replace(q, ",", "_"), stamp(t)>>

\* lines 163-164: open(raw_path, "w") creates or truncates the file
WriteRaw(files, path, content) ==
  [p \in (DOMAIN files) \cup {path} |->
     IF p = path THEN content ELSE files[p]]

\* lines 160-167 and the loop's step; the stamp is taken right after
\* fetch_city returns, at the tick of fetched_at
SaveAndAppend ==
  /\ pc = "save"
  /\ raw' = WriteRaw(raw, raw_path(pack.query, now), pack)
  /\ saved' = Append(saved, pack)
  /\ LET r == append_to_csv(csv, pack)
     IN /\ csv' = r.file
        /\ pc' = IF r.raised THEN "raised_csv"
                 ELSE IF idx = Len(queries) THEN "done" ELSE "fetch_cur"
        /\ idx' = IF r.raised THEN idx ELSE idx + 1
  /\ UNCHANGED <<run, args, api_key, queries, now, requests, pack>>

\* the driver is run again against the same output directory
Rerun(Inputs, Delays) ==
  /\ pc \in Terminal
  /\ run < MaxRuns
  /\ run' = run + 1
  /\ args' \in Inputs
  /\ \E d \in Delays : now' = now + d
  /\ pc' = "start"
  /\ api_key' = None
  /\ queries' = <<>>
  /\ idx' = 0
  /\ requests' = <<>>
  /\ pack' = NoPack
  /\ saved' = <<>>
  /\ UNCHANGED <<raw, csv>>

Init == InitWith(MainInputs)

Next ==
  \/ ResolveKey
  \/ ParseStep
  \/ FetchCurrent(MainCur)
  \/ FetchForecast(MainFct, Latency)
  \/ SaveAndAppend
  \/ Rerun(MainInputs, Latency)

Spec == Init /\ [][Next]_vars

\* ------------------------------------- the credential specification
KeyCur == {OkCur}

KeyFct == {OkFct(1)}

KeyInit == InitWith(KeyInputs)

KeyNext ==
  \/ ResolveKey
  \/ ParseStep
  \/ FetchCurrent(KeyCur)
  \/ FetchForecast(KeyFct, {0})
  \/ SaveAndAppend

SpecKey == KeyInit /\ [][KeyNext]_vars

\* ------------------------------------------ the rows specification
\* runs of two cities with every shape of bundle, on a steady network
RowsInputs ==
  [cli_key : {KeyCli}, env_key : {None}, cfg : {NoConfig},
   cities : {Str(<<"a", ";", "b">>)}, cities_file : {None},
   cities_csv : {NoCities}]

\* the current-weather answers: those above and a payload with "coord": null
RowsCur == MainCur \cup {[OkCur EXCEPT !.coord = "null"]}

RowsInit == InitWith(RowsInputs)

RowsNext ==
  \/ ResolveKey
  \/ ParseStep
  \/ FetchCurrent(RowsCur)
  \/ FetchForecast(MainFct, {0})
  \/ SaveAndAppend
  \/ Rerun(RowsInputs, {0})

SpecRows == RowsInit /\ [][RowsNext]_vars

\* --------------------------------------- the parsing specification
Alphabet == {" ", "a", ";"}

Strings(n) == UNION {[1..k -> Alphabet] : k \in 0..n}

CellValues == {<<>>, Str(<<" ">>), Str(<<" ", "a">>)}

\* the lines of a cities file: up to three cells each (a line of one empty
\* cell is the blank line, which holds no cell)
CsvLines == UNION {[1..k -> CellValues] : k \in 0..3} \ {<< <<>> >>}

CsvFiles ==
  [cols : {<<"name", "state", "country">>, <<"name", "country">>},
   rows : UNION {[1..k -> CsvLines] : k \in 0..MaxRows}]

ParseInputs ==
  [cli_key : {KeyCli}, env_key : {None}, cfg : {NoConfig},
   cities : {None} \cup Strings(MaxLen), cities_file : {None},
   cities_csv : {NoCities}]
  \cup
  [cli_key : {KeyCli}, env_key : {None}, cfg : {NoConfig},
   cities : {None, Str(<<"a", ";", " ">>)}, cities_file : {Str(<<"f">>)},
   cities_csv : CsvFiles]

ParseInit == InitWith(ParseInputs)

ParseNext ==
  \/ ResolveKey
  \/ ParseStep

SpecParse == ParseInit /\ [][ParseNext]_vars

\* --------------------------------- the normalisation specification
\* the payloads in which one key the code reads is absent, null or empty
CurFaults ==
  {[OkCur EXCEPT !.dt = s] : s \in {"absent", "null"}}
  \cup {[OkCur EXCEPT ![f] = s] :
          f \in {"coord", "main", "wind", "rain", "weather"},
          s \in {"absent", "null", "empty"}}

ItemFaults ==
  {[OkItem(1) EXCEPT !.dt = s] : s \in {"absent", "null"}}
  \cup {[OkItem(1) EXCEPT ![f] = s] :
          f \in {"main", "wind", "rain", "weather"},
          s \in {"absent", "null", "empty"}}
  \cup {[OkItem(1) EXCEPT !.pop = "absent"]}

FctFaults ==
  {[OkFct(1) EXCEPT ![f] = s] :
     f \in {"city", "city_coord"}, s \in {"absent", "null", "empty"}}
  \cup {[OkFct(1) EXCEPT !.list = <<it>>] : it \in ItemFaults}

NormPacks ==
  {[query |-> Str(<<"a">>), fetched_at |-> <<>>, current |-> c,
    forecast |-> f] :
     c \in CurFaults \cup {NoPayload, OkCur}, f \in {OkFct(0), OkFct(1)}}
  \cup
  {[query |-> Str(<<"a">>), fetched_at |-> <<>>, current |-> c,
    forecast |-> f] : c \in {NoPayload, OkCur}, f \in FctFaults}

\* before the first call: no weather.csv
NormInit == InitWith(RowsInputs)

\* append_to_csv called on a bundle, lines 82-137
AppendCall ==
  /\ pc \in {"start", "returned"}
  /\ Len(csv.lines) < MaxLines
  /\ \E p \in NormPacks :
       /\ pack' = p
       /\ csv' = append_to_csv(csv, p).file
       /\ pc' = IF append_to_csv(csv, p).raised THEN "raised_csv" ELSE "returned"
  /\ UNCHANGED <<run, args, api_key, queries, idx, now, requests, raw, saved>>

NormNext == AppendCall

SpecNorm == NormInit /\ [][NormNext]_vars

\* ============================================================= claims

\* ----------------------------------------------------------------- C1
HasCfgKey == args.cfg.exists /\ args.cfg.valid /\ Truthy(args.cfg.entry)

KeyFailed == {"exit_nokey", "raised_cfg"}

\* C1: once get_api_key has run, the key main holds is the CLI key when that
\* is non-empty, else the environment's when that is non-empty, else the
\* config file's when that is non-empty, and else the process has exited; a
\* key returned is never empty.
C1_KeyPriority ==
  pc # "start" =>
    /\ Truthy(args.cli_key) => pc \notin KeyFailed /\ api_key = args.cli_key
    /\ ~Truthy(args.cli_key) /\ Truthy(args.env_key) =>
         pc \notin KeyFailed /\ api_key = args.env_key
    /\ ~Truthy(args.cli_key) /\ ~Truthy(args.env_key) /\ HasCfgKey =>
         pc \notin KeyFailed /\ api_key = args.cfg.entry
    /\ ~Truthy(args.cli_key) /\ ~Truthy(args.env_key) /\ ~HasCfgKey =>
         pc \in KeyFailed
    /\ pc \notin KeyFailed => api_key # None /\ api_key # <<>>

\* the CLI key won over a key of the environment and a key of the config file
C1_Witness ==
  /\ pc = "parse"
  /\ args.cli_key = KeyCli
  /\ args.env_key = KeyEnv
  /\ HasCfgKey
  /\ api_key = KeyCli

\* ----------------------------------------------------------------- C2
NoCredential ==
  ~Truthy(args.cli_key) /\ ~Truthy(args.env_key) /\ ~HasCfgKey

\* C2: with no credential anywhere the run ends failed without having issued
\* a request, whatever the city list; and no request is issued before the
\* key is resolved: every request carries a resolved, non-empty key.
C2_NoKeyNoRequest ==
  /\ NoCredential /\ pc # "start" => pc \in KeyFailed /\ requests = <<>>
  /\ pc \in {"start"} \cup KeyFailed => requests = <<>>
  /\ \A i \in 1..Len(requests) :
       Truthy(requests[i].appid) /\ requests[i].appid = api_key

\* a run with cities given and no credential has exited, no request issued
C2_Witness ==
  /\ pc = "exit_nokey"
  /\ NoCredential
  /\ Truthy(args.cities)
  /\ requests = <<>>

\* ------------------------------------------------------------ C3, C4
\* the string without its leading and trailing blanks
Trimmed(s) ==
  LET ink == {i \in 1..Len(s) : s[i] # " "}
  IN IF ink = {} THEN <<>>
     ELSE SubSeq(s, CHOOSE i \in ink : \A j \in ink : i <= j,
                    CHOOSE i \in ink : \A j \in ink : j <= i)

\* the semicolon-delimited segments of s, in order
Segments(s) ==
  LET cuts == {i \in 1..Len(s) : s[i] = ";"} \cup {0, Len(s) + 1}
      starts == cuts \ {Len(s) + 1}
  IN [k \in 1..Cardinality(starts) |->
        LET a == CHOOSE i \in starts : Cardinality({j \in starts : j < i}) = k - 1
            b == CHOOSE i \in cuts : i > a /\ \A j \in cuts : j > a => i <= j
        IN SubSeq(s, a + 1, b - 1)]

\* one query per segment that is non-empty after trimming
ClaimedInline(s) ==
  IF s = None THEN <<>>
  ELSE SelectSeq([k \in 1..Len(Segments(s)) |-> Trimmed(Segments(s)[k])],
                 NonEmpty)

\* the trimmed field of a line, blank when the line or the header lacks it
Field(cols, cells, key) ==
  IF \E i \in 1..Len(cols) : cols[i] = key /\ i <= Len(cells)
  THEN Trimmed(cells[CHOOSE i \in 1..Len(cols) : cols[i] = key])
  ELSE <<>>

WithComma(a, b) ==
  IF a = <<>> THEN b ELSE IF b = <<>> THEN a ELSE a \o <<",">> \o b

\* name, state and country joined with commas, the blank ones left out
ClaimedRowQuery(cols, cells) ==
  WithComma(Field(cols, cells, "name"),
            WithComma(Field(cols, cells, "state"),
                      Field(cols, cells, "country")))

ClaimedFileQueries ==
  IF Truthy(args.cities_file)
  THEN SelectSeq([i \in 1..Len(args.cities_csv.rows) |->
                    ClaimedRowQuery(args.cities_csv.cols,
                                    args.cities_csv.rows[i])], NonEmpty)
  ELSE <<>>

Parsed == pc \notin {"start", "parse"}

\* C3: parse_cities returns the queries of the inline segments, trimmed, in
\* order, followed by the queries of the file rows in row order, and exits
\* instead when there is none.
C3_ParseResult ==
  Parsed =>
    IF ClaimedInline(args.cities) \o ClaimedFileQueries = <<>>
    THEN pc = "exit_nocities"
    ELSE /\ pc = "fetch_cur"
         /\ queries = ClaimedInline(args.cities) \o ClaimedFileQueries

\* C4: every row of the cities file gives the query of its non-blank trimmed
\* fields, comma-joined in the order name, state, country; a row of blank
\* fields gives none and every other row exactly one.
C4_RowQueries ==
  Parsed /\ Truthy(args.cities_file) =>
    /\ pc # "raised_parse"
    /\ SubSeq(queries, Len(InlineQueries(args.cities)) + 1, Len(queries))
         = (IF pc = "exit_nocities" THEN <<>> ELSE ClaimedFileQueries)
    /\ pc = "exit_nocities" => ClaimedFileQueries = <<>>

\* ----------------------------------------------------------------- C5
\* a header row: a line written as the header that names the columns
IsHeaderRow(line) == line.hdr /\ line.vals # <<>>

\* C5: weather.csv, once written, holds exactly one header row, as its first
\* line.
C5_OneHeaderFirst ==
  csv.exists =>
    /\ csv.lines # <<>>
    /\ IsHeaderRow(csv.lines[1])
    /\ \A i \in 2..Len(csv.lines) : ~IsHeaderRow(csv.lines[i])

\* ----------------------------------------------------------------- C6
IsData(line) == ~line.hdr

\* what identifies a data line: its ts, city_query, fetched_at and kind, the
\* first four cells of every layout
DataRowIds(file) ==
  [i \in 1..Len(SelectSeq(file.lines, IsData)) |->
     SubSeq(SelectSeq(file.lines, IsData)[i].vals, 1, 4)]

\* one 'current' row if the current payload is present, then one 'forecast'
\* row per item of the forecast list, in list order
ClaimedRows(p) ==
  (IF p.current.truthy
   THEN << <<Str(<<p.current.dt>>), p.query, p.fetched_at, Str(<<"current">>)>> >>
   ELSE <<>>)
  \o [i \in 1..Len(p.forecast.list) |->
        <<Str(<<p.forecast.list[i].dt>>), p.query, p.fetched_at,
          Str(<<"forecast">>)>>]

\* C6: every step leaves the lines of weather.csv an unchanged prefix of its
\* lines, and an append_to_csv call that completes extends the data rows by
\* exactly the rows of its bundle, current first, then the forecast items in
\* list order; nothing else adds a data row.
C6_RowsAppendOnly ==
  [][/\ Len(csv'.lines) >= Len(csv.lines)
     /\ SubSeq(csv'.lines, 1, Len(csv.lines)) = csv.lines
     /\ DataRowIds(csv') =
          DataRowIds(csv) \o (IF pc = "save" /\ pc' # "raised_csv"
                              THEN ClaimedRows(pack) ELSE <<>>)]_vars

\* a second run is done and the file holds the rows of bundles of both runs,
\* a current row and two forecast rows of one bundle among them
C6_Witness ==
  /\ pc = "done"
  /\ run = 2
  /\ \E i \in 1..Len(csv.lines) : \E j \in 1..Len(csv.lines) :
       /\ IsData(csv.lines[i]) /\ IsData(csv.lines[j])
       /\ Len(csv.lines[i].vals[3]) < Len(csv.lines[j].vals[3])
       /\ Len(pack.fetched_at) > Len(csv.lines[i].vals[3])
  /\ \E i \in 1..(Len(csv.lines) - 2) :
       /\ IsData(csv.lines[i])
       /\ csv.lines[i].vals[4] = Str(<<"current">>)
       /\ csv.lines[i + 1].vals[4] = Str(<<"forecast">>)
       /\ csv.lines[i + 2].vals[4] = Str(<<"forecast">>)
       /\ csv.lines[i + 1].vals[1] = Str(<<"t1">>)
       /\ csv.lines[i + 2].vals[1] = Str(<<"t2">>)

\* ----------------------------------------------------------------- C7
\* C7: writing a city's raw file adds one file to out/raw and leaves every
\* file that was there as it was.
C7_RawFilesNeverOverwritten ==
  [][pc = "save" =>
       /\ Cardinality(DOMAIN raw') = Cardinality(DOMAIN raw) + 1
       /\ \A p \in DOMAIN raw : raw'[p] = raw[p]]_vars

\* ----------------------------------------------------------------- C8
RECURSIVE RowsOf(_)
RowsOf(packs) ==
  IF packs = <<>> THEN <<>>
  ELSE ClaimedRows(Head(packs)) \o RowsOf(Tail(packs))

\* C8: when a request of city N fails, it is the last request of the run;
\* raw files were written for the cities 1..N-1 only and each of them is
\* still there with its bundle; the CSV ends with the rows of those cities and
\* holds none of a later one.
C8_AbortKeepsEarlierCities ==
  pc = "raised_http" =>
    /\ requests # <<>>
    /\ requests[Len(requests)].city = idx
    /\ \A i \in 1..Len(requests) : requests[i].city <= idx
    /\ Len(saved) = idx - 1
    /\ \A i \in 1..Len(saved) : \E p \in DOMAIN raw : raw[p] = saved[i]
    /\ Len(DataRowIds(csv)) >= Len(RowsOf(saved))
    /\ SubSeq(DataRowIds(csv),
              Len(DataRowIds(csv)) - Len(RowsOf(saved)) + 1,
              Len(DataRowIds(csv))) = RowsOf(saved)

\* ----------------------------------------------------------------- C9
CellOf(line, col) ==
  line.vals[CHOOSE j \in 1..Len(line.cols) : line.cols[j] = col]

\* C9: append_to_csv never raises on a bundle in which a key it reads is
\* absent, null or empty, and the current row of a payload without a rain
\* object has an empty rain_1h.
C9_NormalizeNeverFatal ==
  /\ pc # "raised_csv"
  /\ pc = "returned" /\ pack.current.truthy /\ pack.current.rain # "ok" =>
       CellOf(csv.lines[Len(csv.lines) - Len(FctList(pack.forecast))],
              "rain_1h") = <<>>

\* ---------------------------------------------------------------- C10
\* C10: every data line of weather.csv has the columns of the header line,
\* in number and order: each of its cells belongs to the field the header
\* names at that position.
C10_RowsMatchHeader ==
  csv.exists =>
    \A i \in 2..Len(csv.lines) : csv.lines[i].cols = csv.lines[1].cols

====
